---- MODULE Spec2Model ----
(***************************************************************************)
(* Model of the two Archives-of-Nethys scrapers of bfield1/pfcards:        *)
(*   src/Pathfinder_Spells/web_scrape.py       (spells pipeline)           *)
(*   src/Pathfinder_Magic_Items/web_scrape.py  (items pipeline)            *)
(*                                                                         *)
(* Text is a sequence of tokens.  A token is one character ("a", ";",      *)
(* "%", "\\", ...) or an indivisible word ("Reflex", "\\textbf{", ...)     *)
(* standing for the characters it spells; the non-ASCII characters are     *)
(* named after their code points.                                          *)
(***************************************************************************)
EXTENDS Integers, Sequences, FiniteSets, TLC

VARIABLES
    tpc,      \* texify session: "in", "once", "twice" ("off" in other sessions)
    txIn,     \* the text handed to texify
    txOut,    \* texify(txIn)
    txOut2,   \* texify(texify(txIn))
    dpc,      \* description session: "in", "done" ("off" in other sessions)
    dkind,    \* which pipeline's _description_from_span runs
    dspan,    \* the children of the document region (span)
    descr,    \* the value _description_from_span returned
    dwarns,   \* the diagnostics it emitted
    lpc,      \* level session: "in", "done" ("off" in other sessions)
    ldict,    \* the dictionary handed to _level_from_classes, in insertion order
    lsummary, \* the value _level_from_classes returned
    lwarns,   \* the diagnostics it emitted
    pc,       \* pipeline run: "args", "fetch", "extract", "store", "dump", "done",
              \* "abort" ("off" in other sessions)
    kind,     \* the pipeline that runs: "spells" or "items"
    url,      \* args.url: None or a text
    fetched,  \* the document fetched: the spans of its first table
    data,     \* the dictionary soup2dict returned, as main holds it
    warnings, \* the diagnostics emitted so far
    exc,      \* the exception that ended the run, or None
    output,   \* what was printed or written: None or the JSON object
    cpc,      \* one call of a function on its own: "in", "done" ("off" otherwise)
    cmod,     \* the scraper whose function is called: "spells" or "items"
    cfun,     \* the function called
    cargs,    \* its argument
    cret,     \* the value it returned
    cwarns,   \* the diagnostics it emitted
    atable    \* the module's dictionary `abbreviations`

texVars   == <<tpc, txIn, txOut, txOut2>>
descVars  == <<dpc, dkind, dspan, descr, dwarns>>
levelVars == <<lpc, ldict, lsummary, lwarns>>
runVars   == <<pc, kind, url, fetched, data, warnings, exc, output>>
callVars  == <<cpc, cmod, cfun, cargs, cret, cwarns, atable>>
vars == <<texVars, descVars, levelVars, runVars, callVars>>

\* What each session leaves alone.
NotTexify      == <<descVars, levelVars, runVars, callVars>>
NotDescription == <<texVars, levelVars, runVars, callVars>>
NotLevel       == <<texVars, descVars, runVars, callVars>>
NotRun         == <<texVars, descVars, levelVars, callVars>>
NotCall        == <<texVars, descVars, levelVars, runVars>>

----------------------------------------------------------------------------
(* Characters *)

CR     == "\r"
NL     == "\n"
BSL    == "\\"
PCT    == "%"
MINUS  == "u2013"
EMDASH == "u2014"
RSQUO  == "u2019"
LDQUO  == "u201c"
RDQUO  == "u201d"

\* The characters the escaping rules rewrite.
SpecialChars == {CR, MINUS, EMDASH, RSQUO, LDQUO, RDQUO, PCT, NL}

\* The characters texify must never leave in its output.
UnsafeChars == {CR, MINUS, EMDASH, RSQUO, LDQUO, RDQUO, NL}

----------------------------------------------------------------------------
(* Bounds *)

MaxTextLen == 3

\* The longest fragment between the Description heading and what follows it.
MaxNodes == 2

\* The most classes in a dictionary handed to _level_from_classes, and the
\* highest spell level in it (levels run from 0).
MaxClasses == 5
MaxLevel == 3

\* The input alphabet of the texify and description sessions.
Alphabet == {"a", BSL, PCT, "-", CR, NL, MINUS, EMDASH, RSQUO, LDQUO, RDQUO}

RECURSIVE SeqsUpTo(_, _)
SeqsUpTo(S, n) ==
    IF n = 0 THEN {<<>>}
    ELSE LET shorter == SeqsUpTo(S, n - 1)
         IN  shorter \cup {Append(s, c) : s \in {t \in shorter : Len(t) = n - 1}, c \in S}

Texts == SeqsUpTo(Alphabet, MaxTextLen)

----------------------------------------------------------------------------
(* String helpers *)

\* ''.join(parts)
RECURSIVE Concat(_)
Concat(parts) ==
    IF parts = <<>> THEN <<>> ELSE Head(parts) \o Concat(Tail(parts))

\* sep.join(parts)
RECURSIVE Join(_, _)
Join(sep, parts) ==
    IF parts = <<>> THEN <<>>
    ELSE IF Len(parts) = 1 THEN Head(parts)
    ELSE Head(parts) \o sep \o Join(sep, Tail(parts))

\* re.sub(c, rep, s) / s.replace(c, rep) for a one-token pattern c.
RECURSIVE Sub(_, _, _)
Sub(c, rep, s) ==
    IF s = <<>> THEN <<>>
    ELSE (IF Head(s) = c THEN rep ELSE <<Head(s)>>) \o Sub(c, rep, Tail(s))

\* Whether pat occurs in s at index i (counted from 1).
MatchesAt(s, pat, i) ==
    i + Len(pat) - 1 <= Len(s) /\ SubSeq(s, i, i + Len(pat) - 1) = pat

\* s.find(pat): the lowest index where pat occurs, counted from 0, or -1.
Find(s, pat) ==
    LET hits == {i \in 1..Len(s) : MatchesAt(s, pat, i)}
    IN  IF hits = {} THEN -1 ELSE (CHOOSE i \in hits : \A j \in hits : i <= j) - 1

\* pat in s
Contains(s, pat) == Find(s, pat) # -1

\* s.replace(pat, rep) / re.sub of a literal pattern: the occurrences of pat,
\* leftmost first and not overlapping, replaced by rep.
RECURSIVE ReplaceAll(_, _, _)
ReplaceAll(pat, rep, s) ==
    IF s = <<>> THEN <<>>
    ELSE IF MatchesAt(s, pat, 1)
    THEN rep \o ReplaceAll(pat, rep, SubSeq(s, Len(pat) + 1, Len(s)))
    ELSE <<Head(s)>> \o ReplaceAll(pat, rep, Tail(s))

\* s.split(sep)
RECURSIVE Split(_, _)
Split(s, sep) ==
    LET at == Find(s, sep)
    IN  IF at = -1 THEN <<s>>
        ELSE <<SubSeq(s, 1, at)>> \o Split(SubSeq(s, at + Len(sep) + 1, Len(s)), sep)

\* s.lstrip(chars), s.rstrip(chars), s.strip(chars)
RECURSIVE LStrip(_, _)
LStrip(s, chars) ==
    IF s # <<>> /\ Head(s) \in chars THEN LStrip(Tail(s), chars) ELSE s

RECURSIVE RStrip(_, _)
RStrip(s, chars) ==
    IF s # <<>> /\ s[Len(s)] \in chars THEN RStrip(SubSeq(s, 1, Len(s) - 1), chars) ELSE s

Strip(s, chars) == RStrip(LStrip(s, chars), chars)

\* The characters s.strip() removes.
Whitespace == {" ", NL, CR, "\t"}

\* s.startswith(pat)
StartsWith(s, pat) == MatchesAt(s, pat, 1)

\* re.sub(r'(?<!\\)%', r'\\%', s): the lookbehind reads the subject string.
RECURSIVE EscapePercentFrom(_, _)
EscapePercentFrom(s, i) ==
    IF i > Len(s) THEN <<>>
    ELSE (IF s[i] = PCT /\ (i = 1 \/ s[i - 1] # BSL) THEN <<BSL, PCT>> ELSE <<s[i]>>)
         \o EscapePercentFrom(s, i + 1)

\* A percent pass that ignores the lookbehind.
EscapePercentAlways(s) == Sub(PCT, <<BSL, PCT>>, s)

\* re.sub(r'(?<!\\)%', r'\\%', text)
EscapePercent(s) == EscapePercentFrom(s, 1)

\* The passes of texify before the percent pass.
TexQuotes(text) ==
    LET t1 == Sub(CR, <<>>, text)
        t2 == Sub(MINUS, <<"$", "-", "$">>, t1)
        t3 == Sub(EMDASH, <<"-", "-">>, t2)
        t4 == Sub(RSQUO, <<"'">>, t3)
        t5 == Sub(LDQUO, <<"'", "'">>, t4)
    IN  Sub(RDQUO, <<"'", "'">>, t5)

\* texify with the newline pass run before the percent pass.
texifyNewlineFirst(text) ==
    EscapePercent(Sub(NL, <<BSL, BSL>>, TexQuotes(text)))

texify(text) ==
    LET t6 == TexQuotes(text)
        t7 == EscapePercent(t6)
    IN  Sub(NL, <<BSL, BSL>>, t7)

----------------------------------------------------------------------------
(* Values and diagnostics *)

None == [t |-> "none"]
Str(s) == [t |-> "str", v |-> s]

\* An exception leaving a function.
Raise(name) == [t |-> "raise", v |-> name]
Raised(val) == val.t = "raise"

\* warn(msg.format(*args)): the message and what was formatted into it.
Warning(msg, args) == [msg |-> msg, args |-> args]

\* What a function hands back: its value and the diagnostics it emitted.
Ret(val, warns) == [val |-> val, warns |-> warns]

----------------------------------------------------------------------------
(* Abbreviation Table *)

abbreviations ==
    [ k \in {"PRPG Core Rulebook", "Ultimate Equipment", "Ultimate Magic",
             "Ultimate Combat", "Advanced Player's Guide", "Advanced Class Guide",
             "Pathfinder Society Field Guide", "Pathfinder Society Primer",
             "Cheliax, Empire of Devils", "Champions of Purity",
             "Advanced Class Origins", "Magic Tactics Toolbox", "Monster Codex",
             "Adventurer's Guide",
             "adept", "alchemist", "antipaladin", "arcanist", "bard", "bloodrager",
             "cleric", "druid", "hunter", "inquisitor", "investigator", "magus",
             "medium", "mesmerist", "occultist", "oracle", "paladin", "psychic",
             "ranger", "redmantisassassin", "shaman", "skald", "sorcerer",
             "spiritualist", "summoner", "summoner (unchained)", "warpriest",
             "witch", "wizard"} |->
        CASE k = "PRPG Core Rulebook" -> "PF Core"
          [] k = "Ultimate Equipment" -> "PF Ult Equip"
          [] k = "Ultimate Magic" -> "PF Ult Magic"
          [] k = "Ultimate Combat" -> "PF Ult Combat"
          [] k = "Advanced Player's Guide" -> "PF Adv Play"
          [] k = "Advanced Class Guide" -> "PF Adv Class"
          [] k = "Pathfinder Society Field Guide" -> "PFSoc Field Guide"
          [] k = "Pathfinder Society Primer" -> "PFSoc Primer"
          [] k = "Cheliax, Empire of Devils" -> "PFC Cheliax"
          [] k = "Champions of Purity" -> "PFPC Champions of Purity"
          [] k = "Advanced Class Origins" -> "PFPC Adv Class Origins"
          [] k = "Magic Tactics Toolbox" -> "PFPC Magic Tactics Toolbox"
          [] k = "Monster Codex" -> "PF Monster Codex"
          [] k = "Adventurer's Guide" -> "PF Adventurer Guide"
          [] k = "adept" -> "ade"
          [] k = "alchemist" -> "alc"
          [] k = "antipaladin" -> "apal"
          [] k = "arcanist" -> "arc"
          [] k = "bard" -> "bar"
          [] k = "bloodrager" -> "brag"
          [] k = "cleric" -> "cle"
          [] k = "druid" -> "dru"
          [] k = "hunter" -> "hun"
          [] k = "inquisitor" -> "inq"
          [] k = "investigator" -> "inv"
          [] k = "magus" -> "mag"
          [] k = "medium" -> "med"
          [] k = "mesmerist" -> "mes"
          [] k = "occultist" -> "occ"
          [] k = "oracle" -> "ora"
          [] k = "paladin" -> "pal"
          [] k = "psychic" -> "psy"
          [] k = "ranger" -> "ran"
          [] k = "redmantisassassin" -> "rma"
          [] k = "shaman" -> "sha"
          [] k = "skald" -> "ska"
          [] k = "sorcerer" -> "sor"
          [] k = "spiritualist" -> "spi"
          [] k = "summoner" -> "sum"
          [] k = "summoner (unchained)" -> "sumU"
          [] k = "warpriest" -> "war"
          [] k = "witch" -> "wit"
          [] k = "wizard" -> "wiz" ]

\* The table of the items scraper has no entry for "Adventurer's Guide".
items_abbreviations ==
    [k \in DOMAIN abbreviations \ {"Adventurer's Guide"} |-> abbreviations[k]]

\* A name is a text; the keys of the table are single words.
IsKey(table, name) == Len(name) = 1 /\ name[1] \in DOMAIN table

\* Lookup that reports a missing key but returns nothing for it.
LookupEmpty(table, name) ==
    IF IsKey(table, name) THEN Ret(<<table[name[1]]>>, <<>>)
    ELSE Ret(<<>>, <<Warning("Could not abbreviate '{0}'", <<name>>)>>)

\* try: newtxt = abbreviations[name]; except KeyError: warn, newtxt = name
Lookup(table, name) ==
    IF IsKey(table, name) THEN Ret(<<table[name[1]]>>, <<>>)
    ELSE Ret(name, <<Warning("Could not abbreviate '{0}'", <<name>>)>>)

abbreviate(name) == Lookup(abbreviations, name)

items_abbreviate(name) == Lookup(items_abbreviations, name)

----------------------------------------------------------------------------
(* Level-Summary Derivation *)

\* The class codes in the order Python's string comparison puts them
\* ("mystic" is a class name the table does not hold).
CodeOrder ==
    << "ade", "alc", "apal", "arc", "bar", "brag", "cle", "dru", "hun", "inq",
       "inv", "mag", "med", "mes", "mystic", "occ", "ora", "pal", "psy", "ran",
       "rma", "sha", "ska", "sor", "spi", "sum", "sumU", "war", "wit", "wiz" >>

CodeRank(name) == CHOOSE i \in 1..Len(CodeOrder) : CodeOrder[i] = name[1]

\* sorted(class_list)
RECURSIVE SortedFrom(_)
SortedFrom(names) ==
    IF names = {} THEN <<>>
    ELSE LET least == CHOOSE a \in names : \A b \in names : CodeRank(a) <= CodeRank(b)
         IN  <<least>> \o SortedFrom(names \ {least})

\* class_list in the order the code leaves it: as the dictionary lists it.
unsorted(class_list) == class_list

\* sorted(class_list)
sorted(class_list) == SortedFrom({class_list[i] : i \in 1..Len(class_list)})

\* The dictionary `classes` is the sequence of its items, in insertion order.
LevelsOf(classes) == {classes[i].v : i \in 1..Len(classes)}
CountOf(classes, L) == Cardinality({i \in 1..Len(classes) : classes[i].v = L})
FirstAt(classes, L) ==
    CHOOSE i \in 1..Len(classes) :
        classes[i].v = L /\ \A j \in 1..(i - 1) : classes[j].v # L

\* Counter(classes.values()).most_common(): the distinct levels, the most
\* frequent first, equally frequent ones in the order first met.
RECURSIVE MostCommonFrom(_, _)
MostCommonFrom(classes, levels) ==
    IF levels = {} THEN <<>>
    ELSE LET first == CHOOSE a \in levels : \A b \in levels \ {a} :
                          \/ CountOf(classes, a) > CountOf(classes, b)
                          \/ /\ CountOf(classes, a) = CountOf(classes, b)
                             /\ FirstAt(classes, a) < FirstAt(classes, b)
         IN  <<<<first, CountOf(classes, first)>>>> \o MostCommonFrom(classes, levels \ {first})

most_common(classes) == MostCommonFrom(classes, LevelsOf(classes))

RECURSIVE Sum(_)
Sum(counts) == IF counts = <<>> THEN 0 ELSE Head(counts) + Sum(Tail(counts))

\* The test without its first half: more than the runner-up is enough.
HasMajorityNoHalf(counts) == counts[1] > counts[2]

\* Whether the most frequent level is the main level (line 261).
HasMajority(counts) == 2 * counts[1] >= Sum(counts) /\ counts[1] > counts[2]

\* The abbreviated classes that cast at level L, in dictionary order.
ClassListAt(classes, L) ==
    LET at == SelectSeq(classes, LAMBDA c : c.v = L)
    IN  [i \in 1..Len(at) |-> abbreviate(at[i].k)]

\* One entry of levellist: 'sor/wiz 1'.
LevelGroup(classes, L) ==
    LET class_list == ClassListAt(classes, L)
    IN  Ret(Join(<<"/">>, sorted([i \in 1..Len(class_list) |-> class_list[i].val]))
                \o <<" ", ToString(L)>>,
            Concat([i \in 1..Len(class_list) |-> class_list[i].warns]))

\* The result is the level itself (an integer) or a text.
IntV(n) == [t |-> "int", v |-> n]

\* The one-level answer taking the count of the entry, not its level.
OneLevelCount(level_counter) == IntV(level_counter[1][2])

\* return level_counter[0][0]
OneLevel(level_counter) == IntV(level_counter[1][1])

_level_from_classes(classes) ==
    LET level_counter == most_common(classes)
        counts == [i \in 1..Len(level_counter) |-> level_counter[i][2]]
        all_levels == [i \in 1..Len(level_counter) |-> level_counter[i][1]]
        majority == HasMajority(counts)
        levels == IF majority THEN Tail(all_levels) ELSE all_levels
        groups == [i \in 1..Len(levels) |-> LevelGroup(classes, levels[i])]
        leveltxt == Join(<<",", " ">>, [i \in 1..Len(groups) |-> groups[i].val])
        warns == Concat([i \in 1..Len(groups) |-> groups[i].warns])
    IN  IF Len(level_counter) = 1 THEN Ret(OneLevel(level_counter), <<>>)
        ELSE IF majority
        THEN Ret(Str(<<ToString(all_levels[1]), " ", "(">> \o leveltxt \o <<")">>), warns)
        ELSE Ret(Str(leveltxt), warns)

----------------------------------------------------------------------------
(* Documents: a node is a text leaf (NavigableString) or an element (Tag) *)

TextNode(s) == [tag |-> "#text", text |-> s, kids |-> <<>>]
Elem(tag, kids) == [tag |-> tag, text |-> <<>>, kids |-> kids]
IsTag(n) == n.tag # "#text"

\* Tag.text: the strings below the node, concatenated; str() of a text leaf.
RECURSIVE NodeText(_)
NodeText(n) ==
    IF ~IsTag(n) THEN n.text
    ELSE Concat([i \in 1..Len(n.kids) |-> NodeText(n.kids[i])])

\* span.find(name, string=label): the first element of that name whose string
\* is the label, as an index into the children (0: None).  The markers of the
\* documents modelled are children of the span.
FindTag(span, name, label) ==
    LET hits == {i \in 1..Len(span) : span[i].tag = name /\ NodeText(span[i]) = label}
    IN  IF hits = {} THEN 0 ELSE CHOOSE i \in hits : \A j \in hits : i <= j

\* The index of the first sibling after `from` that is an element named in
\* `names`, or Len(span) + 1: where a loop over tag.next_siblings breaks or
\* runs out.
StopIndex(span, from, names) ==
    LET hits == {i \in (from + 1)..Len(span) : span[i].tag \in names}
    IN  IF hits = {} THEN Len(span) + 1 ELSE CHOOSE i \in hits : \A j \in hits : i <= j

----------------------------------------------------------------------------
(* Markup Transducer *)

\* One child of the item in _parse_basic_text's loop.
BasicPiece(elem) ==
    IF IsTag(elem)
    THEN IF elem.tag = "b" THEN Ret(<<"\\textbf{">> \o NodeText(elem) \o <<"}">>, <<>>)
         ELSE IF elem.tag = "i" THEN Ret(<<"\\textit{">> \o NodeText(elem) \o <<"}">>, <<>>)
         ELSE Ret(NodeText(elem), <<Warning("Found unknown tag '{0}'.", <<NodeText(elem)>>)>>)
    ELSE Ret(elem.text, <<>>)

\* The values of a list of results, and their diagnostics in order.
Vals(rs) == [i \in 1..Len(rs) |-> rs[i].val]
Warns(rs) == Concat([i \in 1..Len(rs) |-> rs[i].warns])

\* ''.join(text_list), with the diagnostics of the pieces.
Collect(pieces) == Ret(Concat(Vals(pieces)), Warns(pieces))

\* An exception leaving a function that returns text.
Thrown(name) == [val |-> <<>>, warns |-> <<>>, raised |-> name]
IsThrown(r) == "raised" \in DOMAIN r

\* The result r of a function that called the functions whose results are
\* rs: the first exception among them leaves it too.
Propagate(rs, r) ==
    LET thrown == {i \in 1..Len(rs) : IsThrown(rs[i])}
    IN  IF thrown = {} THEN r ELSE rs[CHOOSE i \in thrown : \A j \in thrown : i <= j]

\* A text leaf (NavigableString) has no attribute children.
_parse_basic_text(item) ==
    IF IsTag(item) THEN Collect([i \in 1..Len(item.kids) |-> BasicPiece(item.kids[i])])
    ELSE Thrown("AttributeError")

\* '\n'+'\n'.join(item_list)+'\n'
UlText(items) ==
    Propagate(items, Ret(<<NL>> \o Join(<<NL>>, Vals(items)) \o <<NL>>, Warns(items)))

_ul_process(ul) ==
    UlText([i \in 1..Len(ul.kids) |-> _parse_basic_text(ul.kids[i])])

\* table.tr: the first element named tr below the table, in document order,
\* looked for among its children and their children; <<>> when there is none
\* (None).
FirstRow(table) ==
    LET below(n) == IF n.tag = "tr" THEN <<n>>
                    ELSE SelectSeq(n.kids, LAMBDA k : k.tag = "tr")
        found == Concat([i \in 1..Len(table.kids) |-> below(table.kids[i])])
    IN  IF found = <<>> THEN <<>> ELSE <<found[1]>>

\* '&'.join(row_list) and the row break after it.
RowText(cells) ==
    Propagate(cells, Ret(Join(<<"&">>, Vals(cells)) \o <<BSL, BSL>>, Warns(cells)))

\* One child of the table in htmltable2latex's loop: a row's cells joined by
\* the column separator and closed by the row break; a text leaf adds nothing.
TableRow(row) ==
    IF IsTag(row)
    THEN RowText([i \in 1..Len(row.kids) |-> _parse_basic_text(row.kids[i])])
    ELSE Ret(<<>>, <<>>)

\* ''.join(text_list) of htmltable2latex.
TableText(ncols, rows) ==
    Propagate(rows,
              Ret(<<"\\begin{tabular}", "{">> \o [i \in 1..ncols |-> "c"] \o <<"}">>
                      \o Concat(Vals(rows)) \o <<"\\end{tabular}">>,
                  Warns(rows)))

\* ncols = len(table.tr.contents); then one pass over table.children.
TableFrom(table, tr) ==
    IF tr = <<>> THEN Thrown("AttributeError")
    ELSE TableText(Len(tr[1].kids), [i \in 1..Len(table.kids) |-> TableRow(table.kids[i])])

htmltable2latex(table) == TableFrom(table, FirstRow(table))

\* One sibling in _description_from_span's loop (it is not a closing heading).
DescriptionPiece(elem) ==
    IF IsTag(elem)
    THEN IF elem.tag = "br" THEN Ret(<<BSL, BSL>>, <<>>)
         ELSE IF elem.tag = "b" THEN Ret(<<"\\textbf{">> \o NodeText(elem) \o <<"}">>, <<>>)
         ELSE IF elem.tag = "i" THEN Ret(<<"\\textit{">> \o NodeText(elem) \o <<"}">>, <<>>)
         ELSE IF elem.tag = "ul" THEN _ul_process(elem)
         ELSE IF elem.tag = "table" THEN htmltable2latex(elem)
         ELSE Ret(NodeText(elem),
                  <<Warning("Found unknown tag '{0}' in Description.", <<<<elem.tag>>>>)>>)
    ELSE Ret(elem.text, <<>>)

\* The siblings after the marker at index tag, up to the closing heading.
DescriptionPieces(span, tag, end) ==
    [i \in 1..(end - tag - 1) |-> DescriptionPiece(span[tag + i])]

\* text = texify(''.join(text_list)); an exception in a piece leaves the
\* extractor.
Described(pieces) ==
    IF \E i \in 1..Len(pieces) : IsThrown(pieces[i])
    THEN Ret(Raise(Propagate(pieces, Ret(<<>>, <<>>)).raised), <<>>)
    ELSE Ret(Str(texify(Concat(Vals(pieces)))), Warns(pieces))

NoDescription ==
    Ret(None, <<Warning("Could not find Description tag. Skipping element 'description'", <<>>)>>)

\* The description that starts after the marker at index tag.
SpellDescriptionFrom(span, tag) ==
    IF tag = 0 THEN NoDescription
    ELSE Described(DescriptionPieces(span, tag, StopIndex(span, tag, {"h3", "h2", "h1"})))

\* Spells: the description ends at the next h3, h2 or h1.
_description_from_span(span) == SpellDescriptionFrom(span, FindTag(span, "h3", <<"Description">>))

\* The diagnostic of a description that no h3 closes (found_end is False).
WithEndCheck(r, found_end) ==
    IF found_end THEN r
    ELSE Ret(r.val, Append(r.warns, Warning("Did not find h3 block after Description.", <<>>)))

ItemDescriptionTo(span, tag, end) ==
    WithEndCheck(Described(DescriptionPieces(span, tag, end)), end <= Len(span))

ItemDescriptionFrom(span, tag) ==
    IF tag = 0 THEN NoDescription ELSE ItemDescriptionTo(span, tag, StopIndex(span, tag, {"h3"}))

\* Items: the description ends at the next h3, and one that no h3 closes is
\* reported.
items_description_from_span(span) ==
    ItemDescriptionFrom(span, FindTag(span, "h3", <<"Description">>))

----------------------------------------------------------------------------
(* Field Extractor: helpers *)

\* A dictionary is the sequence of its items, in insertion order.
Dict(items) == [t |-> "dict", v |-> items]
Tuple(items) == [t |-> "tuple", v |-> items]
Keys(items) == {items[i].k : i \in 1..Len(items)}

\* d[key]
Get(items, key) == items[CHOOSE i \in 1..Len(items) : items[i].k = key].v

\* d[key] = val
SetItem(items, key, val) ==
    IF key \in Keys(items)
    THEN [i \in 1..Len(items) |-> IF items[i].k = key THEN [k |-> key, v |-> val] ELSE items[i]]
    ELSE Append(items, [k |-> key, v |-> val])

\* A list of literal replacements, applied one after the other.
RECURSIVE ReplaceEach(_, _)
ReplaceEach(pairs, s) ==
    IF pairs = <<>> THEN s
    ELSE ReplaceEach(Tail(pairs), ReplaceAll(Head(pairs)[1], Head(pairs)[2], s))

\* re.sub of a literal pattern followed by '.', any one character but a
\* newline.
RECURSIVE ReplaceAny(_, _, _)
ReplaceAny(pat, rep, s) ==
    IF s = <<>> THEN <<>>
    ELSE IF MatchesAt(s, pat, 1) /\ Len(s) > Len(pat) /\ s[Len(pat) + 1] # NL
    THEN rep \o ReplaceAny(pat, rep, SubSeq(s, Len(pat) + 2, Len(s)))
    ELSE <<Head(s)>> \o ReplaceAny(pat, rep, Tail(s))

\* str(node): the text of a leaf, the markup of an element.
RECURSIVE NodeStr(_)
NodeStr(n) ==
    IF ~IsTag(n) THEN n.text
    ELSE <<"<" \o n.tag \o ">">>
         \o Concat([i \in 1..Len(n.kids) |-> NodeStr(n.kids[i])])
         \o <<"</" \o n.tag \o ">">>

\* str(tag.next_sibling) for the child at index i; the last child has None.
NextSiblingStr(span, i) ==
    IF i + 1 > Len(span) THEN <<"None">> ELSE NodeStr(span[i + 1])

\* The texts of the siblings after index `from`, up to the first element
\* named in `until`: elem.text of an element, str(elem) of a leaf.
SiblingTexts(span, from, until) ==
    [i \in 1..(StopIndex(span, from, until) - from - 1) |-> NodeText(span[from + i])]

\* span.h1.text.strip(); a span without h1 has span.h1 None.
_name_from_span(span) ==
    LET hits == {i \in 1..Len(span) : span[i].tag = "h1"}
    IN  IF hits = {} THEN Ret(Raise("AttributeError"), <<>>)
        ELSE Ret(Str(Strip(NodeText(span[CHOOSE i \in hits : \A j \in hits : i <= j]), Whitespace)),
                 <<>>)

\* _get_text_from_simple_tag without its diagnostic.
_get_text_from_simple_tagSilent(span, string, warnname) ==
    LET tag == FindTag(span, "b", <<string>>)
    IN  IF tag = 0 THEN Ret(None, <<>>) ELSE Ret(Str(NextSiblingStr(span, tag)), <<>>)

\* warnname is None or Str(name).
_get_text_from_simple_tag(span, string, warnname) ==
    LET tag == FindTag(span, "b", <<string>>)
    IN  IF tag = 0
        THEN Ret(None,
                 IF warnname # None
                 THEN <<Warning("Could not find {0} tag. Skipping element '{1}'.",
                                <<<<string>>, warnname.v>>)>>
                 ELSE <<>>)
        ELSE Ret(Str(NextSiblingStr(span, tag)), <<>>)

----------------------------------------------------------------------------
(* Field Extractor: spells *)

\* The last character of a name, dropped: source[:-1].
ChopLast(name) ==
    IF name = <<>> THEN <<>>
    ELSE LET last == name[Len(name)]
             init == SubSeq(name, 1, Len(name) - 1)
         IN  CASE last = "Ultimate Magic" -> init \o <<"Ultimate Magi">>
               [] last = "Advanced Player's Guide" -> init \o <<"Advanced Player's Guid">>
               [] last = "Homebrew Tome" -> init \o <<"Homebrew Tom">>
               [] OTHER -> init

\* source[:ind] for ind = source.find(" pg. "): without the suffix, ind is
\* -1 and the slice drops the last character.
CutPage(source) ==
    LET ind == Find(source, <<" pg. ">>)
    IN  IF ind = -1 THEN ChopLast(source) ELSE SubSeq(source, 1, ind)

_source_from_span(span) ==
    LET sourcetag == FindTag(span, "b", <<"Source">>)
        end == StopIndex(span, sourcetag, {"b"})
        links == SelectSeq(SubSeq(span, sourcetag + 1, end - 1), LAMBDA e : e.tag = "a")
        sources_raw == [i \in 1..Len(links) |-> NodeText(links[i])]
    IN  IF sourcetag = 0
        THEN Ret(None, <<Warning("Could not find Source tag. Skipping element 'source'", <<>>)>>)
        ELSE IF sources_raw = <<>>
        THEN Ret(None, <<Warning("No sources detected. Skipping element 'source'.", <<>>)>>)
        ELSE IF Contains(Concat(sources_raw), <<"PRPG Core Rulebook">>)
        THEN Ret(Str(<<"PF Core">>), <<>>)
        ELSE LET r == abbreviate(CutPage(sources_raw[1]))
             IN  Ret(Str(r.val), r.warns)

_school_from_span(span) ==
    LET tag == FindTag(span, "b", <<"School">>)
        joined == Concat(SiblingTexts(span, tag, {"b"}))
        school == ReplaceAll(<<" ">>, <<>>, Strip(joined, {" ", ";"}))
    IN  IF tag = 0
        THEN Ret(None, <<Warning("Could not find School tag. Skipping element 'school'.", <<>>)>>)
        ELSE Ret(Str(ReplaceEach(<< <<<<"see", "text">>, <<"see", " ", "text">>>>,
                                    <<<<",">>, <<",", " ">>>> >>, school)), <<>>)

Digits == {"0", "1", "2", "3", "4", "5", "6", "7", "8", "9"}

\* int(c) for a digit c
DigitValue(c) == CHOOSE n \in 0..9 : ToString(n) = c

\* The loop of _classes_from_span over the comma-separated entries; an empty
\* entry has no last character and one that does not end in a digit is no
\* integer.
RECURSIVE ClassItems(_, _)
ClassItems(text_list, class_dict) ==
    IF text_list = <<>> THEN Dict(class_dict)
    ELSE LET item == Head(text_list)
         IN  IF item = <<>> THEN Raise("IndexError")
             ELSE IF item[Len(item)] \notin Digits THEN Raise("ValueError")
             ELSE ClassItems(Tail(text_list),
                             SetItem(class_dict,
                                     Strip(SubSeq(item, 1, Len(item) - 1), Whitespace),
                                     DigitValue(item[Len(item)])))

_classes_from_span(span) ==
    LET text == _get_text_from_simple_tag(span, "Level", Str(<<"classes">>))
    IN  IF text.val = None THEN text
        ELSE Ret(ClassItems(Split(text.val.v, <<",">>), <<>>), <<>>)

_time_from_span(span) ==
    LET time == _get_text_from_simple_tag(span, "Casting Time", Str(<<"time">>))
    IN  IF time.val = None THEN time
        ELSE Ret(Str(texify(Strip(time.val.v, {" ", ";", "."}))), <<>>)

_components_from_span(span) ==
    LET comp == _get_text_from_simple_tag(span, "Components", Str(<<"components">>))
    IN  IF comp.val = None THEN comp
        ELSE Ret(Str(ReplaceEach(
                 << <<<<"V", ",", " ">>, <<"V", ",">>>>, <<<<"S", ",", " ">>, <<"S", ",">>>>,
                    <<<<"M", ",", " ">>, <<"M", ",">>>>, <<<<"F", ",", " ">>, <<"F", ",">>>>,
                    <<<<")", ",", " ">>, <<")", ",">>>>,
                    <<<<"M", " ", "(">>, <<"M", "(">>>>, <<<<"F", " ", "(">>, <<"F", "(">>>>,
                    <<<<" ", "gp">>, <<"gp">>>>,
                    <<<<" ", "lbs", ".">>, <<"lb">>>> >>,
                 texify(Strip(comp.val.v, {" ", ";", "."})))), <<>>)

_range_from_span(span) ==
    LET found == _get_text_from_simple_tag(span, "Range", Str(<<"range">>))
        range == texify(Strip(found.val.v, {" ", ";", "."}))
    IN  IF found.val = None THEN found
        ELSE IF StartsWith(range, <<"close">>) THEN Ret(Str(<<"close">>), <<>>)
        ELSE IF StartsWith(range, <<"medium">>) THEN Ret(Str(<<"medium">>), <<>>)
        ELSE IF StartsWith(range, <<"long">>) THEN Ret(Str(<<"long">>), <<>>)
        ELSE Ret(Str(ReplaceAll(<<" ", "ft">>, <<"ft">>,
                                ReplaceAny(<<" ", "ft">>, <<"ft">>, range))), <<>>)

\* ATE is "Area", "Target", "Targets", "Effect" or "Duration".
_ATE_from_span(span, ATE) ==
    LET text == _get_text_from_simple_tag(span, ATE, None)
    IN  IF text.val = None THEN text
        ELSE Ret(Str(ReplaceAny(<<" ", "lbs">>, <<"lb">>,
                 ReplaceEach(<< <<<<"levels">>, <<"lvl">>>>, <<<<"level">>, <<"lvl">>>>,
                                <<<<" ", "per", " ">>, <<"/">>>>,
                                <<<<" ", "ft", ".">>, <<"ft">>>>,
                                <<<<"-", "ft", ".">>, <<"ft">>>> >>,
                             texify(Strip(text.val.v, {" ", ";", "."}))))), <<>>)

_area_from_span(span) == _ATE_from_span(span, "Area")

_target_from_span(span) ==
    LET target == _ATE_from_span(span, "Target")
    IN  IF target.val = None THEN _ATE_from_span(span, "Targets") ELSE target

_effect_from_span(span) == _ATE_from_span(span, "Effect")

\* Without the marker the diagnostic is emitted and then None.replace is
\* called.
_duration_from_span(span) ==
    LET duration == _ATE_from_span(span, "Duration")
    IN  IF duration.val = None
        THEN Ret(Raise("AttributeError"),
                 <<Warning("Could not find Duration tag. Skipping element 'duration'.", <<>>)>>)
        ELSE Ret(Str(ReplaceEach(<< <<<<"min", ".">>, <<"min">>>>,
                                    <<<<"minutes">>, <<"min">>>>,
                                    <<<<"minute">>, <<"min">>>> >>, duration.val.v)), <<>>)

_save_from_span(span) ==
    LET save == _get_text_from_simple_tag(span, "Saving Throw", None)
    IN  IF save.val = None THEN Ret(Str(<<"none">>), <<>>)
        ELSE Ret(Str(ReplaceEach(<< <<<<"Reflex">>, <<"Ref">>>>,
                                    <<<<"Fortitude">>, <<"Fort">>>> >>,
                                 Strip(save.val.v, {" ", ";", "."}))), <<>>)

_sr_from_span(span) ==
    LET sr == _get_text_from_simple_tag(span, "Spell Resistance", None)
    IN  IF sr.val = None THEN Ret(Str(<<"no">>), <<>>)
        ELSE Ret(Str(Strip(sr.val.v, {" ", ";", "."})), <<>>)

\* What soup2dict carries from one extractor to the next: the dictionary so
\* far, the diagnostics so far, and the exception that ended it, if any.
Extraction(json, warns, raised) == [json |-> json, warns |-> warns, raised |-> raised]

\* json[key] = val, whatever val is.
StoreAlways(json, key, val) == SetItem(json, key, val)

\* StoreIfFound without its test.
StoreEvenIfNone(json, key, val) == SetItem(json, key, val)

\* if val is not None: json[key] = val
StoreIfFound(json, key, val) == IF val = None THEN json ELSE SetItem(json, key, val)

\* One extractor call of soup2dict and the guarded assignment after it;
\* nothing runs after an exception.
Put(st, key, r) ==
    IF st.raised # None THEN st
    ELSE IF Raised(r.val) THEN Extraction(st.json, st.warns \o r.warns, r.val)
    ELSE Extraction(StoreIfFound(st.json, key, r.val), st.warns \o r.warns, None)

\* One extractor call followed by an unguarded assignment.
PutAlways(st, key, r) ==
    IF st.raised # None THEN st
    ELSE IF Raised(r.val) THEN Extraction(st.json, st.warns \o r.warns, r.val)
    ELSE Extraction(StoreAlways(st.json, key, r.val), st.warns \o r.warns, None)

\* json['classes'] = classes; json['level'] = _level_from_classes(classes)
WithLevel(st, r, lv) ==
    Extraction(SetItem(SetItem(st.json, "classes", r.val), "level", lv.val),
               st.warns \o r.warns \o lv.warns, None)

\* classes and, when found, the level summary derived from it (lines 113-116).
PutClasses(st, r) ==
    IF st.raised # None THEN st
    ELSE IF Raised(r.val) THEN Extraction(st.json, st.warns \o r.warns, r.val)
    ELSE IF r.val = None THEN Extraction(st.json, st.warns \o r.warns, None)
    ELSE WithLevel(st, r, _level_from_classes(r.val.v))

\* The diagnostic for a spell with no area, target and effect (lines 132-133).
WarnNoATE(st) ==
    IF st.raised = None /\ Get(st.json, "area") = None /\ Get(st.json, "target") = None
       /\ Get(st.json, "effect") = None
    THEN Extraction(st.json, Append(st.warns, Warning("No Area, Target or Effect found.", <<>>)), None)
    ELSE st

\* soup.table.span, or for an empty one the next span of the table that has
\* contents: its index among the spans of the table, 0 when there is none.
FirstFilledSpan(soup) ==
    LET filled == {i \in 1..Len(soup) : soup[i] # <<>>}
    IN  IF filled = {} THEN 0 ELSE CHOOSE i \in filled : \A j \in filled : i <= j

\* One statement group of soup2dict: the extractor's result and how it is
\* assigned.
Step(key, how, r) == [key |-> key, how |-> how, r |-> r]

RunStep(st, s) ==
    CASE s.how = "guarded" -> Put(st, s.key, s.r)
      [] s.how = "always" -> PutAlways(st, s.key, s.r)
      [] s.how = "classes" -> PutClasses(st, s.r)
      [] s.how = "ate" -> WarnNoATE(st)

\* The statement groups of soup2dict, run in order.
RECURSIVE RunSteps(_, _)
RunSteps(st, steps) ==
    IF steps = <<>> THEN st ELSE RunSteps(RunStep(st, Head(steps)), Tail(steps))

\* Lines 104-145, in order.
SpellSteps(span) ==
    << Step("name", "guarded", _name_from_span(span)),
       Step("source", "guarded", _source_from_span(span)),
       Step("school", "guarded", _school_from_span(span)),
       Step("classes", "classes", _classes_from_span(span)),
       Step("time", "guarded", _time_from_span(span)),
       Step("components", "guarded", _components_from_span(span)),
       Step("range", "guarded", _range_from_span(span)),
       Step("area", "always", _area_from_span(span)),
       Step("target", "always", _target_from_span(span)),
       Step("effect", "always", _effect_from_span(span)),
       Step("", "ate", Ret(None, <<>>)),
       Step("duration", "guarded", _duration_from_span(span)),
       Step("save", "guarded", _save_from_span(span)),
       Step("sr", "guarded", _sr_from_span(span)),
       Step("description", "guarded", _description_from_span(span)) >>

\* A document is the sequence of the spans of its first table, each span the
\* sequence of its children.
spells_soup2dict(soup) ==
    LET i == FirstFilledSpan(soup)
    IN  IF soup = <<>> THEN Extraction(<<>>, <<>>, Raise("AttributeError"))
        ELSE IF i = 0 THEN Extraction(<<>>, <<>>, Raise("ValueError"))
        ELSE RunSteps(Extraction(<<>>, <<>>, None), SpellSteps(soup[i]))

----------------------------------------------------------------------------
(* Field Extractor: items *)

\* span.text
SpanText(span) == Concat([i \in 1..Len(span) |-> NodeText(span[i])])

\* s[a:b] for indices counted from 0, neither negative.
Slice(s, a, b) == SubSeq(s, a + 1, b)

items_source_from_span(span) ==
    LET spantxt == SpanText(span)
        found == Find(spantxt, <<"Source", " ">>)
        startind == found + 2
        endind == Find(spantxt, <<"Aura">>)
        between == Slice(spantxt, startind, endind)
        sources_raw == Split(between, <<",", " ">>)
        source == sources_raw[Len(sources_raw)]
        r == items_abbreviate(CutPage(source))
    IN  IF found = -1
        THEN Ret(None, <<Warning("We could not find 'Source '. Skipping element 'source'", <<>>)>>)
        ELSE IF endind = -1
        THEN Ret(None, <<Warning("We could not find 'Aura'. Skipping element 'source'", <<>>)>>)
        ELSE IF Contains(between, <<"PRPG Core Rulebook">>) THEN Ret(Str(<<"PF Core">>), <<>>)
        ELSE Ret(Str(r.val), r.warns)

_aura_from_span(span) ==
    LET spantxt == SpanText(span)
        found == Find(spantxt, <<"Aura", " ">>)
        startind == found + 2
        endind == Find(spantxt, <<"CL">>)
    IN  IF found = -1
        THEN Ret(None, <<Warning("We could not find 'Aura '. Skipping element 'aura'", <<>>)>>)
        ELSE IF endind = -1
        THEN Ret(None, <<Warning("We could not find 'CL'. Skipping element 'aura'", <<>>)>>)
        ELSE Ret(Str(Strip(Slice(spantxt, startind, endind), {" ", ";"})), <<>>)

_CL_from_span(span) ==
    LET cltag == FindTag(span, "b", <<"CL">>)
    IN  IF cltag = 0
        THEN Ret(None, <<Warning("Could not find CL tag. Skipping element 'cl'", <<>>)>>)
        ELSE Ret(Str(SelectSeq(NextSiblingStr(span, cltag), LAMBDA c : c \in Digits)), <<>>)

\* if s[-1] == ";": s = s[0:-1]; an empty s has no last character.
DropSemicolon(s) ==
    IF s = <<>> THEN Raise("IndexError")
    ELSE IF s[Len(s)] = ";" THEN Str(SubSeq(s, 1, Len(s) - 1))
    ELSE Str(s)

\* if s == "—": s = "--"
DashAlone(s) == IF s = <<EMDASH>> THEN <<"-", "-">> ELSE s

_slot_from_span(span) ==
    LET tag == FindTag(span, "b", <<"Slot">>)
        slot == DropSemicolon(Strip(NextSiblingStr(span, tag), Whitespace))
    IN  IF tag = 0
        THEN Ret(None, <<Warning("Could not find Slot tag. Skipping element 'slot'", <<>>)>>)
        ELSE IF Raised(slot) THEN Ret(slot, <<>>)
        ELSE Ret(Str(DashAlone(slot.v)), <<>>)

_price_from_span(span) ==
    LET tag == FindTag(span, "b", <<"Price">>)
        price == Concat(SiblingTexts(span, tag, {"b", "h3"}))
    IN  IF tag = 0
        THEN Ret(None, <<Warning("Could not find Price tag. Skipping element 'price'", <<>>)>>)
        ELSE Ret(DropSemicolon(Strip(price, Whitespace)), <<>>)

_weight_from_span(span) ==
    LET tag == FindTag(span, "b", <<"Weight">>)
    IN  IF tag = 0
        THEN Ret(None, <<Warning("Could not find Weight tag. Skipping element 'weight'", <<>>)>>)
        ELSE Ret(Str(DashAlone(Strip(NextSiblingStr(span, tag), {" ", ";", "."}))), <<>>)

\* The words that hold "Craft" or "Forge".
CraftWords == {"Craft Wondrous Item", "Craft Magic Arms and Armor", "Forge Ring"}

\* "Craft" in s or "Forge" in s
NamesCraft(s) == \E i \in 1..Len(s) : s[i] \in CraftWords

\* The requirements with no element among them: the comma-separated entries
\* sorted into feats and the rest, in order.
SplitByCraft(text) ==
    LET splittxt == Split(text, <<",", " ">>)
    IN  << Join(<<",", " ">>, SelectSeq(splittxt, LAMBDA e : NamesCraft(e))),
           <<>>,
           Join(<<",", " ">>, SelectSeq(splittxt, LAMBDA e : ~NamesCraft(e))) >>

\* The requirements with elements among them: what precedes the first
\* element, the run from the first to the last one, what follows.
SplitByElements(text_list, italic_list) ==
    LET first == CHOOSE i \in italic_list : \A j \in italic_list : i <= j
        last == CHOOSE i \in italic_list : \A j \in italic_list : i >= j
    IN  << Concat(SubSeq(text_list, 1, first - 1)),
           Concat(SubSeq(text_list, first, last)),
           Concat(SubSeq(text_list, last + 1, Len(text_list))) >>

\* if feat[-4:] == " and": feat = feat[:-4]
DropAnd(feat) ==
    IF Len(feat) >= 2 /\ SubSeq(feat, Len(feat) - 1, Len(feat)) = <<" ", "and">>
    THEN SubSeq(feat, 1, Len(feat) - 2)
    ELSE feat

\* if not s: s = None
NoneIfEmpty(s) == IF s = <<>> THEN None ELSE Str(s)

\* The value is None (no Construction heading) or the tuple (feat, spells,
\* others); a heading with nothing after it has no next_siblings to walk.
_construction_from_span(span) ==
    LET heading == FindTag(span, "h3", <<"Construction">>)
        tag == heading + 1
        tag_list == SubSeq(span, tag + 1, StopIndex(span, tag, {"b"}) - 1)
        text_list == [i \in 1..Len(tag_list) |-> NodeText(tag_list[i])]
        italic_list == {i \in 1..Len(tag_list) : IsTag(tag_list[i])}
        parts == IF italic_list = {} THEN SplitByCraft(Concat(text_list))
                 ELSE SplitByElements(text_list, italic_list)
        punctuation == {" ", ",", ".", ";", ":"}
        feat == texify(DropAnd(Strip(parts[1], punctuation)))
        spells == texify(Strip(parts[2], punctuation))
        others == texify(Strip(parts[3], punctuation))
    IN  IF heading = 0
        THEN Ret(None, <<Warning("Could not find Construction tag. Skipping.", <<>>)>>)
        ELSE IF tag > Len(span) THEN Ret(Raise("AttributeError"), <<>>)
        ELSE Ret(Tuple(<<NoneIfEmpty(feat), NoneIfEmpty(spells), NoneIfEmpty(others)>>), <<>>)

\* feat, spells, others = _construction_from_span(span) and the three
\* assignments after it; None cannot be unpacked.
PutConstruction(st, r) ==
    IF st.raised # None THEN st
    ELSE IF r.val = None THEN Extraction(st.json, st.warns \o r.warns, Raise("TypeError"))
    ELSE IF Raised(r.val) THEN Extraction(st.json, st.warns \o r.warns, r.val)
    ELSE Extraction(StoreAlways(StoreAlways(StoreAlways(st.json, "feat", r.val.v[1]),
                                            "spells", r.val.v[2]),
                                "other_requirements", r.val.v[3]),
                    st.warns \o r.warns, None)

\* Lines 94-117, in order.
ItemSteps(span) ==
    << Step("name", "guarded", _name_from_span(span)),
       Step("source", "guarded", items_source_from_span(span)),
       Step("aura", "guarded", _aura_from_span(span)),
       Step("cl", "guarded", _CL_from_span(span)),
       Step("slot", "guarded", _slot_from_span(span)),
       Step("price", "guarded", _price_from_span(span)),
       Step("weight", "guarded", _weight_from_span(span)),
       Step("description", "guarded", items_description_from_span(span)) >>

items_soup2dict(soup) ==
    IF soup = <<>> THEN Extraction(<<>>, <<>>, Raise("AttributeError"))
    ELSE PutConstruction(RunSteps(Extraction(<<>>, <<>>, None), ItemSteps(soup[1])),
                         _construction_from_span(soup[1]))

----------------------------------------------------------------------------
(* The texify session: one text, escaped once and then once more. *)

TexifyOff == tpc = "off" /\ txIn = <<>> /\ txOut = <<>> /\ txOut2 = <<>>

DescriptionOff ==
    dpc = "off" /\ dkind = "spells" /\ dspan = <<>> /\ descr = None /\ dwarns = <<>>

LevelOff == lpc = "off" /\ ldict = <<>> /\ lsummary = None /\ lwarns = <<>>

RunOff ==
    /\ pc = "off" /\ kind = "spells" /\ url = None /\ fetched = <<>> /\ data = <<>>
    /\ warnings = <<>> /\ exc = None /\ output = None

CallOff ==
    /\ cpc = "off" /\ cmod = "spells" /\ cfun = "" /\ cargs = <<>> /\ cret = None
    /\ cwarns = <<>> /\ atable = <<>>

InitTexify ==
    /\ tpc = "in"
    /\ txIn \in Texts
    /\ txOut = <<>>
    /\ txOut2 = <<>>
    /\ DescriptionOff
    /\ LevelOff
    /\ RunOff
    /\ CallOff

TexifyOnce ==
    /\ tpc = "in"
    /\ txOut' = texify(txIn)
    /\ tpc' = "once"
    /\ UNCHANGED <<txIn, txOut2, NotTexify>>

TexifyTwice ==
    /\ tpc = "once"
    /\ txOut2' = texify(txOut)
    /\ tpc' = "twice"
    /\ UNCHANGED <<txIn, txOut, NotTexify>>

NextTexify == TexifyOnce \/ TexifyTwice

SpecTexify == InitTexify /\ [][NextTexify]_vars

\* C9: texify leaves no carriage return, typographic minus, em-dash, right
\* single quote, curly double quote or literal newline in its output; each
\* em-dash of the input becomes a double hyphen and each newline the
\* line-break marker (two backslashes), at its own place: the output is the
\* escaped text before it, the replacement, and the escaped text after it.
C9_EscapingAlphabet ==
    tpc # "in" =>
        /\ \A i \in 1..Len(txOut) : txOut[i] \notin UnsafeChars
        /\ \A i \in 1..Len(txIn) :
              LET before == SubSeq(txIn, 1, i - 1)
                  after  == SubSeq(txIn, i + 1, Len(txIn))
              IN  /\ txIn[i] = EMDASH =>
                        txOut = texify(before) \o <<"-", "-">> \o texify(after)
                  /\ txIn[i] = NL =>
                        txOut = texify(before) \o <<BSL, BSL>> \o texify(after)

C9_Witness ==
    /\ tpc = "once"
    /\ txIn = <<EMDASH, "a", NL>>
    /\ txOut = <<"-", "-", "a", BSL, BSL>>

\* C10: escaping an already-escaped text changes nothing, texify(texify(t)) =
\* texify(t), and a text with none of the special characters is returned as
\* it is.
C10_Idempotent ==
    /\ tpc = "twice" => txOut2 = txOut
    /\ (tpc # "in" /\ \A i \in 1..Len(txIn) : txIn[i] \notin SpecialChars) => txOut = txIn

C10_Witness ==
    /\ tpc = "twice"
    /\ txIn = <<PCT, NL, "a">>
    /\ txOut = <<BSL, PCT, BSL, BSL, "a">>
    /\ txOut2 = txOut

----------------------------------------------------------------------------
(* The description session: one document region, transduced once. *)

Heading(name, label) == Elem(name, <<TextNode(<<label>>)>>)
Cell(s) == Elem("td", <<TextNode(s)>>)

\* The nodes a description fragment is drawn from.
NodePool ==
    { TextNode(<<"a">>), TextNode(<<PCT>>), TextNode(<<BSL, PCT>>),
      TextNode(<<"a", PCT, EMDASH>>),
      Elem("br", <<>>),
      Elem("b", <<TextNode(<<"a">>)>>),
      Elem("i", <<TextNode(<<PCT>>)>>),
      Elem("ul", <<Elem("li", <<TextNode(<<"a">>), Elem("b", <<TextNode(<<"a">>)>>)>>),
                   Elem("li", <<Elem("a", <<TextNode(<<"a">>)>>)>>)>>),
      Elem("table", <<Elem("tr", <<Cell(<<"a">>), Cell(<<PCT>>)>>),
                      Elem("tr", <<Cell(<<"a">>), Cell(<<"a">>)>>)>>),
      Elem("a", <<TextNode(<<"a">>)>>),
      Heading("h2", "Mythic") }

\* The parser merges adjacent strings: no two text leaves in a row.
Fragments ==
    {f \in SeqsUpTo(NodePool, MaxNodes) :
        \A i \in 1..(Len(f) - 1) : IsTag(f[i]) \/ IsTag(f[i + 1])}

\* What follows the fragment: nothing, or the next section.
Tails == {<<>>, <<Heading("h3", "Construction"), TextNode(<<"a">>)>>}

DescriptionSpans ==
    {<<Heading("h1", "Name")>> \o <<Heading("h3", "Description")>> \o f \o t :
        f \in Fragments, t \in Tails}
    \cup {<<Heading("h1", "Name"), TextNode(<<"a">>)>>}

InitDescription ==
    /\ dpc = "in"
    /\ dkind \in {"spells", "items"}
    /\ dspan \in DescriptionSpans
    /\ descr = None
    /\ dwarns = <<>>
    /\ TexifyOff
    /\ LevelOff
    /\ RunOff
    /\ CallOff

Describe ==
    /\ dpc = "in"
    /\ LET r == IF dkind = "spells" THEN _description_from_span(dspan)
                ELSE items_description_from_span(dspan)
       IN  descr' = r.val /\ dwarns' = r.warns
    /\ dpc' = "done"
    /\ UNCHANGED <<dkind, dspan, NotDescription>>

NextDescription == Describe

SpecDescription == InitDescription /\ [][NextDescription]_vars

IsPrefix(p, s) == Len(p) <= Len(s) /\ SubSeq(s, 1, Len(p)) = p

\* The description of the region cut after the first m tokens of the text
\* leaf at index k.
DescribedThrough(k, m) ==
    LET cut == SubSeq(dspan, 1, k - 1) \o <<TextNode(SubSeq(dspan[k].text, 1, m))>>
    IN  (IF dkind = "spells" THEN _description_from_span(cut)
         ELSE items_description_from_span(cut)).val.v

\* The text leaves that belong to the description.
DescriptionLeaves ==
    LET tag == FindTag(dspan, "h3", <<"Description">>)
        closing == IF dkind = "spells" THEN {"h3", "h2", "h1"} ELSE {"h3"}
    IN  {k \in (tag + 1)..(StopIndex(dspan, tag, closing) - 1) : ~IsTag(dspan[k])}

\* C8: every percent sign of a text leaf that no backslash precedes in that
\* leaf comes out as an escaped percent sign (a backslash and the percent
\* sign, at the place of the percent sign), whatever node precedes the leaf;
\* a percent sign that a backslash precedes in the leaf comes out as it is.
C8_PercentEscaped ==
    (dpc = "done" /\ descr # None) =>
        \A k \in DescriptionLeaves : \A j \in 1..Len(dspan[k].text) :
            dspan[k].text[j] = PCT =>
                /\ IsPrefix(DescribedThrough(k, j), descr.v)
                /\ DescribedThrough(k, j) = DescribedThrough(k, j - 1) \o
                      (IF j > 1 /\ dspan[k].text[j - 1] = BSL THEN <<PCT>> ELSE <<BSL, PCT>>)

----------------------------------------------------------------------------
(* The level session: one dictionary of classes, summarised once. *)

\* The class names a dictionary is drawn from; "mystic" is not in the table.
ClassPool == <<"sorcerer", "wizard", "bard", "cleric", "druid", "mystic">>

Reverse(s) == [i \in 1..Len(s) |-> s[Len(s) + 1 - i]]

\* The dictionaries: up to MaxClasses names of the pool, each with a level,
\* listed in the order of the pool or in the opposite order.
PoolNames == {ClassPool[i] : i \in 1..Len(ClassPool)}

\* A dictionary: up to MaxClasses names of the pool, each with a level, listed
\* in the order of the pool or in the opposite order.
InitLevel ==
    /\ lpc = "in"
    /\ \E order \in {ClassPool, Reverse(ClassPool)} :
       \E chosen \in {S \in SUBSET PoolNames : Cardinality(S) \in 1..MaxClasses} :
          LET names == SelectSeq(order, LAMBDA c : c \in chosen)
          IN  \E lv \in [1..Len(names) -> 0..MaxLevel] :
                 ldict = [i \in 1..Len(names) |-> [k |-> <<names[i]>>, v |-> lv[i]]]
    /\ lsummary = None
    /\ lwarns = <<>>
    /\ TexifyOff
    /\ DescriptionOff
    /\ RunOff
    /\ CallOff

Summarise ==
    /\ lpc = "in"
    /\ LET r == _level_from_classes(ldict)
       IN  lsummary' = r.val /\ lwarns' = r.warns
    /\ lpc' = "done"
    /\ UNCHANGED <<ldict, NotLevel>>

NextLevel == Summarise

SpecLevel == InitLevel /\ [][NextLevel]_vars

\* The distinct levels of the dictionary and how often each occurs.
Levels == {ldict[i].v : i \in 1..Len(ldict)}
Occurrences(L) == Cardinality({i \in 1..Len(ldict) : ldict[i].v = L})

\* A level with at least half of the entries and more than any other level.
Plurality(L) ==
    /\ 2 * Occurrences(L) >= Len(ldict)
    /\ \A other \in Levels \ {L} : Occurrences(L) > Occurrences(other)

\* The short code of a class name: the table's, or the name itself.
CodeOf(cls) ==
    IF cls[1] \in DOMAIN abbreviations THEN <<abbreviations[cls[1]]>> ELSE cls

\* 'classA/classB level': the codes of the classes at L, in alphabetical
\* order, slash-joined, then the level.
GroupOf(L) ==
    Join(<<"/">>, SortedFrom({CodeOf(ldict[i].k) : i \in {j \in 1..Len(ldict) : ldict[j].v = L}}))
        \o <<" ", ToString(L)>>

\* The pieces of a text between its commas.
RECURSIVE SplitOnComma(_)
SplitOnComma(text) ==
    LET commas == {i \in 1..Len(text) : text[i] = ","}
        first == CHOOSE i \in commas : \A j \in commas : i <= j
    IN  IF commas = {} THEN <<text>>
        ELSE <<SubSeq(text, 1, first - 1)>> \o SplitOnComma(SubSeq(text, first + 1, Len(text)))

\* The text is exactly one group for each level of `levels`, in some order,
\* joined by a comma and a space.
ListsGroups(text, levels) ==
    LET parts == SplitOnComma(text)
    IN  /\ Len(parts) = Cardinality(levels)
        /\ \A i \in 2..Len(parts) : parts[i] # <<>> /\ parts[i][1] = " "
        /\ {IF i = 1 THEN parts[i] ELSE Tail(parts[i]) : i \in 1..Len(parts)}
               = {GroupOf(L) : L \in levels}

\* The summary has the form 'L (...)'.
HasMainForm(L) ==
    /\ lsummary.t = "str"
    /\ Len(lsummary.v) >= 4
    /\ SubSeq(lsummary.v, 1, 3) = <<ToString(L), " ", "(">>
    /\ lsummary.v[Len(lsummary.v)] = ")"

\* C1: with at least two distinct levels, a level is the unannotated main
\* level exactly when it has at least half of the entries and strictly more
\* than the runner-up; the summary is then 'main (grp1, grp2, ...)' with one
\* group for every other level and none for the main level.
C1_MainLevel ==
    (lpc = "done" /\ Cardinality(Levels) >= 2) =>
        \A L \in Levels :
            /\ HasMainForm(L) <=> Plurality(L)
            /\ Plurality(L) =>
                  ListsGroups(SubSeq(lsummary.v, 4, Len(lsummary.v) - 1), Levels \ {L})

C1_Witness ==
    /\ lpc = "done"
    /\ ldict = << [k |-> <<"sorcerer">>, v |-> 1], [k |-> <<"wizard">>, v |-> 1],
                  [k |-> <<"bard">>, v |-> 2] >>
    /\ lsummary = Str(<<"1", " ", "(", "bar", " ", "2", ")">>)

\* C2: with at least two distinct levels and no plurality, the summary lists
\* one group 'classA/classB level' for every distinct level (codes from the
\* Abbreviation Table, in alphabetical order, slash-joined; groups
\* comma-joined), so that every class is in the one group of its level, and
\* there is no bare main level.
C2_NoPlurality ==
    (lpc = "done" /\ Cardinality(Levels) >= 2 /\ \A L \in Levels : ~Plurality(L)) =>
        /\ lsummary.t = "str"
        /\ ListsGroups(lsummary.v, Levels)

C2_Witness ==
    /\ lpc = "done"
    /\ ldict = << [k |-> <<"cleric">>, v |-> 1], [k |-> <<"druid">>, v |-> 2] >>
    /\ lsummary = Str(<<"cle", " ", "1", ",", " ", "dru", " ", "2">>)

\* C3: when all the classes of a non-empty dictionary share one level, the
\* summary is that level alone: the number, no class name, no group.
C3_SingleLevel ==
    (lpc = "done" /\ Cardinality(Levels) = 1) =>
        /\ lsummary = IntV(ldict[1].v)
        /\ lwarns = <<>>

C3_Witness ==
    /\ lpc = "done"
    /\ ldict = << [k |-> <<"sorcerer">>, v |-> 1], [k |-> <<"wizard">>, v |-> 1] >>
    /\ lsummary = IntV(1)


----------------------------------------------------------------------------
(* The pipeline run: main of either scraper, from the arguments to the
   output, over documents built from labelled fields. *)

\* The most labels a document lacks.
MaxMissing == 2

Bold(label) == Elem("b", <<TextNode(<<label>>)>>)
Link(s) == Elem("a", <<TextNode(s)>>)

\* The labels of a spell page, in page order, and of an item page.
SpellLabels ==
    <<"Source", "School", "Level", "Casting Time", "Components", "Range", "Area",
      "Target", "Targets", "Effect", "Duration", "Saving Throw", "Spell Resistance",
      "Description">>
ItemLabels ==
    <<"Source", "Aura", "CL", "Slot", "Price", "Weight", "Description", "Construction">>

\* The texts that follow a label.
FieldTexts ==
    { <<" ", "a", ";", " ">>,
      <<" ", "a", EMDASH, PCT, ";">>,
      <<" ", "Reflex", " ", "half", ";", " ">>,
      <<" ", "close", " ", "(", "a", ")">>,
      <<" ", "1", " ", "minute", " ", "per", " ", "level">>,
      <<" ", EMDASH>>,
      <<" ">> }

\* The contents of a description.
RunFragments ==
    { <<TextNode(<<"a">>)>>,
      <<TextNode(<<"a", EMDASH>>), Elem("i", <<TextNode(<<"b">>)>>)>>,
      <<Elem("br", <<>>), TextNode(<<PCT>>)>> }

\* The requirements of a construction block.
Requirements ==
    { <<TextNode(<<" ", "Craft Wondrous Item", ",", " ">>),
        Elem("i", <<TextNode(<<"bless">>)>>), TextNode(<<";", " ">>)>>,
      <<TextNode(<<" ", "Craft Wondrous Item", ",", " ">>),
        Elem("i", <<TextNode(<<"bless">>)>>), TextNode(<<",", " ", "a", EMDASH, ";", " ">>)>>,
      <<TextNode(<<" ", "Forge Ring", ",", " ", "a", ";", " ">>)>>,
      <<TextNode(<<" ", "a", ";", " ">>)>> }

LevelText == <<" ", "sorcerer", " ", "1", ",", " ", "wizard", " ", "1", ",", " ", "bard", " ", "2">>

\* What one label of a spell page contributes to the region.
SpellField(label, txt, frag) ==
    CASE label = "Source" ->
            <<Bold("Source"), TextNode(<<" ">>), Link(<<"Ultimate Magic", " pg. ", "2">>),
              TextNode(<<",", " ">>), Link(<<"Advanced Player's Guide", " pg. ", "3">>)>>
      [] label = "Level" -> <<Bold("Level"), TextNode(LevelText)>>
      [] label = "Description" -> <<Heading("h3", "Description")>> \o frag
      [] OTHER -> <<Bold(label), TextNode(txt)>>

\* What one label of an item page contributes to the region.
ItemField(label, txt, frag, req) ==
    CASE label = "Source" ->
            <<Bold("Source"), TextNode(<<" ">>), Link(<<"Ultimate Magic", " pg. ", "2">>),
              TextNode(<<",", " ">>), Link(<<"Advanced Player's Guide", " pg. ", "3">>)>>
      [] label = "CL" -> <<Bold("CL"), TextNode(<<" ", "5", "t", "h">>)>>
      [] label = "Description" -> <<Heading("h3", "Description")>> \o frag
      [] label = "Construction" ->
            <<Heading("h3", "Construction"), Bold("Requirements")>> \o req
            \o <<Bold("Cost"), TextNode(<<" ", "1", " ", "gp">>)>>
      [] OTHER -> <<Bold(label), TextNode(txt)>>

\* The region of a spell page that lacks the labels in `missing`.
SpellSpan(missing, txt, frag) ==
    <<Heading("h1", "Name")>>
    \o Concat([i \in 1..Len(SpellLabels) |->
                  IF SpellLabels[i] \in missing THEN <<>>
                  ELSE SpellField(SpellLabels[i], txt, frag)])

ItemSpan(missing, txt, frag, req) ==
    <<Heading("h1", "Name")>>
    \o Concat([i \in 1..Len(ItemLabels) |->
                  IF ItemLabels[i] \in missing THEN <<>>
                  ELSE ItemField(ItemLabels[i], txt, frag, req)])

Range(f) == {f[i] : i \in DOMAIN f}

\* The sets of labels a document may lack: a few of them, or all of them but
\* the description (the page of a name and a description only).
MissingSets(labels) ==
    {m \in SUBSET Range(labels) : Cardinality(m) <= MaxMissing}
    \cup {Range(labels) \ {"Description"}}

\* Either every label is there and the texts vary, or labels are missing and
\* the texts are the plain ones.
PlainText == <<" ", "a", ";", " ">>
PlainFragment == <<TextNode(<<"a">>)>>
PlainRequirements == <<TextNode(<<" ", "a", ";", " ">>)>>

\* args.url
Urls ==
    { None,
      Str(<<"https://aonprd.com/", "SpellDisplay.aspx">>),
      Str(<<"https://www.aonprd.com/", "MagicWondrousDisplay.aspx">>),
      Str(<<"http://example.com/", "SpellDisplay.aspx">>),
      Str(<<"https://aonprd.com", ".example.com/">>),
      Str(<<>>) }

InitRun ==
    /\ pc = "args"
    /\ kind \in {"spells", "items"}
    /\ url \in Urls
    /\ fetched = <<>>
    /\ data = <<>>
    /\ warnings = <<>>
    /\ exc = None
    /\ output = None
    /\ TexifyOff
    /\ DescriptionOff
    /\ LevelOff
    /\ CallOff

\* Any text is taken for a page of the website.
PointsToWebsiteAny(text) == TRUE

\* args.url.startswith("https://aonprd.com/")
\*     or args.url.startswith("https://www.aonprd.com/")
PointsToWebsite(text) ==
    \/ StartsWith(text, <<"https://aonprd.com/">>)
    \/ StartsWith(text, <<"https://www.aonprd.com/">>)

\* main: the two checks of args.url; either one that fails ends the run
\* before url2soup is called.
ParseArgs ==
    /\ pc = "args"
    /\ IF url = None
       THEN pc' = "abort" /\ exc' = Raise("TypeError")
       ELSE IF ~PointsToWebsite(url.v)
       THEN pc' = "abort" /\ exc' = Raise("ValueError")
       ELSE pc' = "fetch" /\ exc' = exc
    /\ UNCHANGED <<kind, url, fetched, data, warnings, output, NotRun>>

\* url2soup returns the page: every label present, texts varying.
FetchFull ==
    /\ pc = "fetch"
    /\ \E txt \in FieldTexts, frag \in RunFragments, req \in Requirements :
          fetched' = IF kind = "spells"
                     THEN <<SpellSpan({}, txt, frag)>>
                     ELSE <<ItemSpan({}, txt, frag, req)>>
    /\ pc' = "extract"
    /\ UNCHANGED <<kind, url, data, warnings, exc, output, NotRun>>

\* url2soup returns a page that lacks some labels; a spell page may open
\* with an empty span.
FetchLacking ==
    /\ pc = "fetch"
    /\ \E lead \in {<<>>, << <<>> >>} :
          IF kind = "spells"
          THEN \E m \in MissingSets(SpellLabels) \ {{}} :
                  fetched' = lead \o <<SpellSpan(m, PlainText, PlainFragment)>>
          ELSE /\ lead = <<>>
               /\ \E m \in MissingSets(ItemLabels) \ {{}} :
                     fetched' = <<ItemSpan(m, PlainText, PlainFragment, PlainRequirements)>>
    /\ pc' = "extract"
    /\ UNCHANGED <<kind, url, data, warnings, exc, output, NotRun>>

\* urlopen fails.
FetchFails ==
    /\ pc = "fetch"
    /\ pc' = "abort"
    /\ exc' = Raise("URLError")
    /\ UNCHANGED <<kind, url, fetched, data, warnings, output, NotRun>>

\* What main holds when soup2dict has ended: the record it returned, or the
\* exception that left it; the diagnostics were emitted either way.
Returned(st) ==
    /\ warnings' = warnings \o st.warns
    /\ IF st.raised # None
       THEN pc' = "abort" /\ exc' = st.raised /\ data' = data
       ELSE pc' = "store" /\ exc' = exc /\ data' = st.json

\* data = soup2dict(soup)
Soup2Dict ==
    /\ pc = "extract"
    /\ Returned(IF kind = "spells" THEN spells_soup2dict(fetched) ELSE items_soup2dict(fetched))
    /\ UNCHANGED <<kind, url, fetched, output, NotRun>>

\* data["url"] = args.url
StoreUrl ==
    /\ pc = "store"
    /\ data' = SetItem(data, "url", url)
    /\ pc' = "dump"
    /\ UNCHANGED <<kind, url, fetched, warnings, exc, output, NotRun>>

\* json.dumps of one value: None is written null.
JsonValue(val) ==
    CASE val = None -> [t |-> "null"]
      [] val.t = "dict" -> [t |-> "object", v |-> val.v]
      [] OTHER -> val

\* json.dumps(data, indent=4): the object, key by key in insertion order.
Dumps(items) == [i \in 1..Len(items) |-> [k |-> items[i].k, v |-> JsonValue(items[i].v)]]

\* print(json), or f.write(json) to args.output
Dump ==
    /\ pc = "dump"
    /\ \E to \in {"stdout", "file"} : output' = [to |-> to, json |-> Dumps(data)]
    /\ pc' = "done"
    /\ UNCHANGED <<kind, url, fetched, data, warnings, exc, NotRun>>

Next ==
    \/ ParseArgs
    \/ FetchFull
    \/ FetchLacking
    \/ FetchFails
    \/ Soup2Dict
    \/ StoreUrl
    \/ Dump

Spec == InitRun /\ [][Next]_vars


----------------------------------------------------------------------------
(* Properties of the record a run emits *)

\* soup2dict has returned: main holds the record.
Emitted == pc \in {"store", "dump", "done"}

\* The region soup2dict reads.
RunSpan == IF kind = "spells" THEN fetched[FirstFilledSpan(fetched)] ELSE fetched[1]

\* The page has no marker for the label; a target may be labelled Targets.
Lacks(label) ==
    CASE label \in {"Description", "Construction"} -> FindTag(RunSpan, "h3", <<label>>) = 0
      [] label = "Target" ->
            FindTag(RunSpan, "b", <<"Target">>) = 0 /\ FindTag(RunSpan, "b", <<"Targets">>) = 0
      [] OTHER -> FindTag(RunSpan, "b", <<label>>) = 0

\* The labels of a page of either kind.
OptionalLabels ==
    IF kind = "spells" THEN Range(SpellLabels) \ {"Targets"} ELSE Range(ItemLabels)

\* The labels whose extractor reports a missing marker and returns None to
\* a guarded assignment.
SkippedLabels ==
    IF kind = "spells"
    THEN {"Source", "School", "Level", "Casting Time", "Components", "Range", "Description"}
    ELSE {"Source", "Slot", "Price", "Weight", "Description"}

\* The keys of the record that hold what follows the label.
FieldsOf(label) ==
    CASE label = "Level" -> {"classes", "level"}
      [] label = "Casting Time" -> {"time"}
      [] label = "Saving Throw" -> {"save"}
      [] label = "Spell Resistance" -> {"sr"}
      [] label = "Construction" -> {"feat", "spells", "other_requirements"}
      [] label = "Source" -> {"source"}
      [] label = "School" -> {"school"}
      [] label = "Components" -> {"components"}
      [] label = "Range" -> {"range"}
      [] label = "Area" -> {"area"}
      [] label = "Target" -> {"target"}
      [] label = "Effect" -> {"effect"}
      [] label = "Duration" -> {"duration"}
      [] label = "Description" -> {"description"}
      [] label = "Aura" -> {"aura"}
      [] label = "CL" -> {"cl"}
      [] label = "Slot" -> {"slot"}
      [] label = "Price" -> {"price"}
      [] label = "Weight" -> {"weight"}

SimpleDiagnostic(label, field) ==
    Warning("Could not find {0} tag. Skipping element '{1}'.", <<<<label>>, <<field>>>>)

\* The diagnostics that report the label as missing.
DiagnosticsFor(label) ==
    IF kind = "spells"
    THEN CASE label = "Source" ->
                 {Warning("Could not find Source tag. Skipping element 'source'", <<>>)}
           [] label = "School" ->
                 {Warning("Could not find School tag. Skipping element 'school'.", <<>>)}
           [] label = "Level" -> {SimpleDiagnostic("Level", "classes")}
           [] label = "Casting Time" -> {SimpleDiagnostic("Casting Time", "time")}
           [] label = "Components" -> {SimpleDiagnostic("Components", "components")}
           [] label = "Range" -> {SimpleDiagnostic("Range", "range")}
           [] label \in {"Area", "Target", "Effect"} ->
                 {Warning("No Area, Target or Effect found.", <<>>)}
           [] label = "Duration" ->
                 {Warning("Could not find Duration tag. Skipping element 'duration'.", <<>>)}
           [] label = "Description" ->
                 {Warning("Could not find Description tag. Skipping element 'description'", <<>>)}
           [] OTHER -> {}
    ELSE CASE label = "Source" ->
                 {Warning("We could not find 'Source '. Skipping element 'source'", <<>>)}
           [] label = "Aura" ->
                 {Warning("We could not find 'Aura'. Skipping element 'source'", <<>>),
                  Warning("We could not find 'Aura '. Skipping element 'aura'", <<>>)}
           [] label = "CL" ->
                 {Warning("We could not find 'CL'. Skipping element 'aura'", <<>>),
                  Warning("Could not find CL tag. Skipping element 'cl'", <<>>)}
           [] label = "Slot" -> {Warning("Could not find Slot tag. Skipping element 'slot'", <<>>)}
           [] label = "Price" -> {Warning("Could not find Price tag. Skipping element 'price'", <<>>)}
           [] label = "Weight" ->
                 {Warning("Could not find Weight tag. Skipping element 'weight'", <<>>)}
           [] label = "Description" ->
                 {Warning("Could not find Description tag. Skipping element 'description'", <<>>)}
           [] label = "Construction" ->
                 {Warning("Could not find Construction tag. Skipping.", <<>>)}
           [] OTHER -> {}

\* How many diagnostics of the run report the label as missing.
DiagnosticCount(label) ==
    Cardinality({i \in 1..Len(warnings) : warnings[i] \in DiagnosticsFor(label)})

\* The label is missing, its fields are not in the record, and one
\* diagnostic was emitted for it.
SkippedWithOneDiagnostic(label) ==
    /\ FieldsOf(label) \cap Keys(data) = {}
    /\ DiagnosticCount(label) = 1

C5_MissingLabelNeverAborts ==
    (pc = "abort" /\ fetched # <<>>) => \A label \in OptionalLabels : ~Lacks(label)

\* The keys assigned without a test: they hold None when nothing was found.
NullableKeys ==
    IF kind = "spells" THEN {"area", "target", "effect"}
    ELSE {"feat", "spells", "other_requirements"}

RECURSIVE BackslashesBefore(_, _)
BackslashesBefore(s, i) ==
    IF i > 1 /\ s[i - 1] = BSL THEN 1 + BackslashesBefore(s, i - 1) ELSE 0

MarkupSafe(s) ==
    \A i \in 1..Len(s) :
        /\ s[i] \notin UnsafeChars
        /\ s[i] = PCT => BackslashesBefore(s, i) % 2 = 1

\* C7: every string-valued field of an emitted record, the url apart, has
\* no carriage return, newline, typographic minus, em-dash or curly quote
\* and no percent sign that is not escaped.
C7_MarkupSafeFields ==
    Emitted =>
        \A i \in 1..Len(data) :
            (data[i].k # "url" /\ data[i].v.t = "str") => MarkupSafe(data[i].v.v)


----------------------------------------------------------------------------
(* One call of abbreviate *)

\* The names looked up: every key of the table, and names that are none.
LookupNames ==
    {<<k>> : k \in DOMAIN abbreviations}
    \cup { <<>>, <<"mystic">>, <<"Homebrew Tome">>, <<"Ultimate Magi">>,
           <<"wizard", " ">>, <<"Ultimate Magic", " pg. ", "2">> }

TableOf(mod) == IF mod = "spells" THEN abbreviations ELSE items_abbreviations

InitAbbreviate ==
    /\ cpc = "in"
    /\ cmod \in {"spells", "items"}
    /\ cfun = "abbreviate"
    /\ cargs \in LookupNames
    /\ cret = None
    /\ cwarns = <<>>
    /\ atable = TableOf(cmod)
    /\ TexifyOff
    /\ DescriptionOff
    /\ LevelOff
    /\ RunOff

\* What the caller holds after the call of a function that returns a value
\* of the record, and of one that returns text.
Called(r) == cret' = r.val /\ cwarns' = r.warns /\ cpc' = "done"
CalledText(r) ==
    /\ cret' = IF IsThrown(r) THEN Raise(r.raised) ELSE Str(r.val)
    /\ cwarns' = r.warns
    /\ cpc' = "done"

\* abbreviate(name): the lookup reads the dictionary and assigns nothing to
\* it.
Abbreviate ==
    /\ cpc = "in"
    /\ cfun = "abbreviate"
    /\ CalledText(Lookup(atable, cargs))
    /\ UNCHANGED <<cmod, cfun, cargs, atable, NotCall>>

NextAbbreviate == Abbreviate

SpecAbbreviate == InitAbbreviate /\ [][NextAbbreviate]_vars

\* C11: a name that is a key of the table is returned as its short code with
\* no diagnostic; any other name is returned as it is with exactly one
\* diagnostic, which names it; the table after the call is the table of the
\* module, unchanged.
C11_Lookup ==
    (cfun = "abbreviate" /\ cpc = "done") =>
        /\ atable = TableOf(cmod)
        /\ IF Len(cargs) = 1 /\ cargs[1] \in DOMAIN TableOf(cmod)
           THEN cret = Str(<<TableOf(cmod)[cargs[1]]>>) /\ cwarns = <<>>
           ELSE cret = Str(cargs) /\ cwarns = <<Warning("Could not abbreviate '{0}'", <<cargs>>)>>

C11_Witness ==
    /\ cfun = "abbreviate"
    /\ cpc = "done"
    /\ cmod = "items"
    /\ cargs = <<"Adventurer's Guide">>
    /\ cret = Str(<<"Adventurer's Guide">>)
    /\ Len(cwarns) = 1


----------------------------------------------------------------------------
(* One call of htmltable2latex *)

\* The most rows of a table, and the most cells of a row.
MaxRows == 2
MaxCols == 3

\* The whitespace between two elements of a page written on several lines.
Gap == TextNode(<<NL>>)

\* What a cell holds.
CellKinds == {"plain", "bold", "percent"}
CellOf(k) ==
    CASE k = "plain" -> Cell(<<"a">>)
      [] k = "bold" -> Elem("td", <<Elem("b", <<TextNode(<<"a">>)>>), TextNode(<<"b">>)>>)
      [] k = "percent" -> Cell(<<"1", PCT>>)

\* The elements, with the whitespace around each of them when gap is TRUE.
Spaced(elems, gap) ==
    IF gap THEN <<Gap>> \o Concat([i \in 1..Len(elems) |-> <<elems[i], Gap>>]) ELSE elems

\* A table of r rows of c cells; its rows are its children, or those of a
\* tbody.
TableOfShape(r, c, k, rowgap, cellgap, tbody) ==
    LET tr == Elem("tr", Spaced([j \in 1..c |-> CellOf(k)], cellgap))
        rows == Spaced([i \in 1..r |-> tr], rowgap)
    IN  Elem("table", IF tbody THEN <<Elem("tbody", rows)>> ELSE rows)

InitTable ==
    /\ cpc = "in"
    /\ cmod \in {"spells", "items"}
    /\ cfun = "htmltable2latex"
    /\ \E r \in 1..MaxRows, c \in 1..MaxCols, k \in CellKinds,
          rowgap \in BOOLEAN, cellgap \in BOOLEAN, tbody \in BOOLEAN :
          cargs = TableOfShape(r, c, k, rowgap, cellgap, tbody)
    /\ cret = None
    /\ cwarns = <<>>
    /\ atable = TableOf(cmod)
    /\ TexifyOff
    /\ DescriptionOff
    /\ LevelOff
    /\ RunOff

\* htmltable2latex(table); the function is the same in both scrapers.
Table2Latex ==
    /\ cpc = "in"
    /\ cfun = "htmltable2latex"
    /\ CalledText(htmltable2latex(cargs))
    /\ UNCHANGED <<cmod, cfun, cargs, atable, NotCall>>

NextTable == Table2Latex

SpecTable == InitTable /\ [][NextTable]_vars

\* The rows of a table, and the cells of a row.
RowsIn(table) ==
    Concat([i \in 1..Len(table.kids) |->
               IF table.kids[i].tag = "tr" THEN <<table.kids[i]>>
               ELSE SelectSeq(table.kids[i].kids, LAMBDA n : n.tag = "tr")])
CellsIn(row) == SelectSeq(row.kids, LAMBDA n : n.tag = "td")

\* How many times a token occurs in a text.
Count(tok, text) == Cardinality({i \in 1..Len(text) : text[i] = tok})

\* The text is one tabular block of nrows rows and ncols columns: the
\* opening, a column specification of ncols columns, then nrows rows that
\* each hold ncols - 1 column separators and end in a row break, then the
\* closing.
IsTabular(text, nrows, ncols) ==
    /\ Len(text) >= ncols + 4
    /\ text[1] = "\\begin{tabular}"
    /\ text[2] = "{"
    /\ SubSeq(text, 3, ncols + 2) = [i \in 1..ncols |-> "c"]
    /\ text[ncols + 3] = "}"
    /\ text[Len(text)] = "\\end{tabular}"
    /\ LET rows == Split(SubSeq(text, ncols + 4, Len(text) - 1), <<BSL, BSL>>)
       IN  /\ Len(rows) = nrows + 1
           /\ rows[nrows + 1] = <<>>
           /\ \A i \in 1..nrows : Count("&", rows[i]) = ncols - 1

\* C12: for a table of R rows of C cells each, htmltable2latex returns one
\* tabular block with a column specification of C columns, R row breaks and
\* C - 1 column separators in each row.
C12_TableShape ==
    (cfun = "htmltable2latex" /\ cpc = "done") =>
        /\ cret.t = "str"
        /\ IsTabular(cret.v, Len(RowsIn(cargs)), Len(CellsIn(RowsIn(cargs)[1])))


----------------------------------------------------------------------------
(* The page of a name and a description *)

\* The fetched page holds the name heading and the Description section and
\* no other label.
MinimalDocument ==
    /\ fetched # <<>>
    /\ ~Lacks("Description")
    /\ \A label \in OptionalLabels \ {"Description"} : Lacks(label)

\* The keys of the JSON object written out.
OutputKeys == {output.json[i].k : i \in 1..Len(output.json)}

\* C13: a run on a page that holds only the name heading and the Description
\* section completes, and the JSON it writes has the keys name, description
\* and url and no other.
C13_MinimalDocument ==
    MinimalDocument =>
        /\ pc # "abort"
        /\ pc = "done" => OutputKeys = {"name", "description", "url"}


----------------------------------------------------------------------------
(* The checks of the URL *)

\* A URL was given and it begins with one of the two prefixes of the website.
UrlAccepted ==
    /\ url # None
    /\ Len(url.v) > 0
    /\ url.v[1] \in {"https://aonprd.com/", "https://www.aonprd.com/"}

\* The run is at url2soup or past it, or holds something url2soup, soup2dict
\* or the output step left.
FetchReached ==
    \/ pc \in {"fetch", "extract", "store", "dump", "done"}
    \/ fetched # <<>>
    \/ data # <<>>
    \/ warnings # <<>>
    \/ output # None
    \/ exc \notin {None, Raise("TypeError"), Raise("ValueError")}

\* C14: a run reaches the fetch only with a URL that was given and begins
\* with https://aonprd.com/ or https://www.aonprd.com/; with no URL or any
\* other URL the run aborts with an error (TypeError for none, ValueError
\* otherwise) and nothing was fetched, extracted or written.
C14_ValidatedBeforeFetch ==
    /\ FetchReached => UrlAccepted
    /\ ~UrlAccepted =>
          /\ pc \in {"args", "abort"}
          /\ pc = "abort" =>
                exc = IF url = None THEN Raise("TypeError") ELSE Raise("ValueError")

C14_Witness ==
    /\ pc = "abort"
    /\ url = Str(<<"https://aonprd.com", ".example.com/">>)
    /\ exc = Raise("ValueError")
    /\ fetched = <<>>
    /\ output = None


----------------------------------------------------------------------------
(* One call of the spells' _source_from_span *)

\* The most sources listed after the Source label.
MaxSources == 2

\* The books a source names, and a source entry with or without its page.
SourceBooks ==
    {"Ultimate Magic", "Advanced Player's Guide", "Homebrew Tome", "PRPG Core Rulebook"}
SourceEntries ==
    {<<b>> : b \in SourceBooks} \cup {<<b, " pg. ", "2">> : b \in SourceBooks}

\* The region from the Source label on: the linked sources, commas between
\* them, then the next label or the end of the region.
SourceSpan(entries, closed) ==
    <<Heading("h1", "Name"), Bold("Source"), TextNode(<<" ">>)>>
    \o Concat([i \in 1..Len(entries) |->
                  IF i = 1 THEN <<Link(entries[i])>>
                  ELSE <<TextNode(<<",", " ">>), Link(entries[i])>>])
    \o (IF closed THEN <<Bold("School"), TextNode(<<" ", "a">>)>> ELSE <<>>)

InitSource ==
    /\ cpc = "in"
    /\ cmod = "spells"
    /\ cfun = "_source_from_span"
    /\ \E n \in 1..MaxSources, closed \in BOOLEAN :
          \E entries \in [1..n -> SourceEntries] : cargs = SourceSpan(entries, closed)
    /\ cret = None
    /\ cwarns = <<>>
    /\ atable = TableOf(cmod)
    /\ TexifyOff
    /\ DescriptionOff
    /\ LevelOff
    /\ RunOff

\* _source_from_span(span) of the spells scraper
SourceFromSpan ==
    /\ cpc = "in"
    /\ cfun = "_source_from_span"
    /\ Called(_source_from_span(cargs))
    /\ UNCHANGED <<cmod, cfun, cargs, atable, NotCall>>

NextSource == SourceFromSpan

SpecSource == InitSource /\ [][NextSource]_vars

\* The sources listed in a region, in page order.
ListedSources(span) ==
    LET links == SelectSeq(span, LAMBDA e : e.tag = "a")
    IN  [i \in 1..Len(links) |-> links[i].kids[1].text]

\* A source entry without its page-number suffix; an entry that has none is
\* the name itself.
WithoutPage(entry) ==
    IF Len(entry) = 3 /\ entry[2] = " pg. " THEN <<entry[1]>> ELSE entry

\* The short code of a name in the spells' table, or the name itself.
ShortCode(name) ==
    IF Len(name) = 1 /\ name[1] \in DOMAIN abbreviations
    THEN <<abbreviations[name[1]]>>
    ELSE name

\* C15: with at least one source listed after the Source label, the source
\* is 'PF Core' when the core rulebook is among them, and otherwise the
\* abbreviation of the first source's name, its ' pg. N' suffix removed and
\* the name otherwise unchanged, whether or not the entry has the suffix.
C15_SourceSelection ==
    (cfun = "_source_from_span" /\ cpc = "done" /\ ListedSources(cargs) # <<>>) =>
        LET sources == ListedSources(cargs)
        IN  IF \E i \in 1..Len(sources) : sources[i][1] = "PRPG Core Rulebook"
            THEN cret = Str(<<"PF Core">>)
            ELSE cret = Str(ShortCode(WithoutPage(sources[1])))


----------------------------------------------------------------------------
(* One call of the items' _construction_from_span *)

\* The most nodes between the Requirements label and the Cost label.
MaxRequirements == 3

\* The nodes of a requirements list: texts, a spell in italics, a linked
\* feat.
RequirementLeaves ==
    { TextNode(<<" ", "Craft Wondrous Item", ",", " ">>),
      TextNode(<<",", " ", "a", ";", " ">>),
      TextNode(<<" ", "a", ",", " ", "Forge Ring", ",", " ", "b", ";", " ">>) }
RequirementElems ==
    { Elem("i", <<TextNode(<<"bless">>)>>),
      Elem("a", <<TextNode(<<"Craft Rod">>)>>) }

\* A parsed page has no two texts in a row.
RequirementLists ==
    UNION {{req \in [1..n -> RequirementLeaves \cup RequirementElems] :
               \A i \in 1..(n - 1) : IsTag(req[i]) \/ IsTag(req[i + 1])} :
           n \in 1..MaxRequirements}

\* The region of an item page from the Construction heading on.
ConstructionSpan(req) ==
    <<Heading("h1", "Name"), Heading("h3", "Construction"), Bold("Requirements")>>
    \o req \o <<Bold("Cost"), TextNode(<<" ", "1", " ", "gp">>)>>

InitConstruction ==
    /\ cpc = "in"
    /\ cmod = "items"
    /\ cfun = "_construction_from_span"
    /\ \E req \in RequirementLists : cargs = ConstructionSpan(req)
    /\ cret = None
    /\ cwarns = <<>>
    /\ atable = TableOf(cmod)
    /\ TexifyOff
    /\ DescriptionOff
    /\ LevelOff
    /\ RunOff

\* _construction_from_span(span)
ConstructionFromSpan ==
    /\ cpc = "in"
    /\ cfun = "_construction_from_span"
    /\ Called(_construction_from_span(cargs))
    /\ UNCHANGED <<cmod, cfun, cargs, atable, NotCall>>

NextConstruction == ConstructionFromSpan

SpecConstruction == InitConstruction /\ [][NextConstruction]_vars

\* The requirements node sequence of a region: the nodes between the
\* Requirements label and the next label.
RequirementNodes(span) ==
    LET label == FindTag(span, "b", <<"Requirements">>)
    IN  SubSeq(span, label + 1, StopIndex(span, label, {"b"}) - 1)

\* A field as the function returns it: punctuation and blanks stripped,
\* marked up for TeX, None when nothing is left.
AsField(text) == NoneIfEmpty(texify(Strip(text, {" ", ",", ".", ";", ":"})))

\* The comma-separated entries of a text that name, or do not name, a
\* crafting feat, in order.
EntriesWhere(text, craft) ==
    Join(<<",", " ">>,
         SelectSeq(Split(text, <<",", " ">>),
                   LAMBDA e : (\E i \in 1..Len(e) : e[i] \in CraftWords) = craft))

\* The three fields the requirements stand for, the italic elements alone
\* being the boundaries of the spells.
FieldsByItalics(nodes) ==
    LET texts == [i \in 1..Len(nodes) |-> NodeText(nodes[i])]
        italics == {i \in 1..Len(nodes) : nodes[i].tag = "i"}
        first == CHOOSE i \in italics : \A j \in italics : i <= j
        last == CHOOSE i \in italics : \A j \in italics : i >= j
    IN  IF italics = {}
        THEN << AsField(EntriesWhere(Concat(texts), TRUE)),
                None,
                AsField(EntriesWhere(Concat(texts), FALSE)) >>
        ELSE << AsField(Concat(SubSeq(texts, 1, first - 1))),
                AsField(Concat(SubSeq(texts, first, last))),
                AsField(Concat(SubSeq(texts, last + 1, Len(texts)))) >>

\* C16: with an italic element among the requirements, feat is the text
\* before the first italic element, spells the run from the first to the
\* last italic element and other_requirements what follows, only italic
\* elements being boundaries; with none, each comma-separated entry goes to
\* feat when it contains Craft or Forge and to other_requirements otherwise,
\* in order, and spells is empty.
C16_RequirementsSplit ==
    (cfun = "_construction_from_span" /\ cpc = "done") =>
        cret = Tuple(FieldsByItalics(RequirementNodes(cargs)))

====
